---- MODULE Spec2Model ----
(***************************************************************************)
(* Model of the house rater (src/src/Dashboard.tsx, component              *)
(* HouseRatingSystem): the scorer calculateScore, the memoised             *)
(* map/filter/sort pipeline scoredHouses and the handlers that change its  *)
(* inputs.                                                                 *)
(*                                                                         *)
(* JavaScript values are tagged records, so that an absent property, null, *)
(* 0, false and '' stay distinct where the code tells them apart (===) and *)
(* coincide where it does not (||).  Text is a sequence of one-character   *)
(* strings.  Numbers are exact: a score is a rational n/d; d = 0 stands    *)
(* for the results of a division by zero (NaN, +-Infinity).                *)
(***************************************************************************)
EXTENDS Integers, Sequences, FiniteSets, TLC

VARIABLES
  weights,       \* useState: the nine preference weights
  houses,        \* useState: the listing collection
  sortBy,        \* useState: the sort key
  searchTerm,    \* useState: the text of the search box
  budgetLimit,   \* useState: the budget threshold
  memoDeps,      \* useMemo: the dependencies of the last run of the callback,
                 \* <<>> before the first render
  scoredHouses,  \* useMemo: the value the callback returned
  formData,      \* useState: the listing in the form
  editingHouse,  \* useState: the listing being edited, or Null
  showAddForm,   \* useState: the form is shown
  db,            \* the rows of the table 'houses' of the remote store
  load,          \* loadHousesFromDB, started by the mount effect
  op,            \* the add, edit, delete or import in flight
  started        \* how many user actions (clicks, inputs) were started

view == <<weights, houses, sortBy, searchTerm, budgetLimit>>

form == <<formData, editingHouse, showAddForm>>

vars == <<view, memoDeps, scoredHouses, form, db, load, op, started>>

(***************************************************************************)
(* JavaScript values                                                       *)
(***************************************************************************)
Undefined == [t |-> "undefined"]

Null == [t |-> "null"]

Num(n) == [t |-> "number", v |-> n]

Bool(b) == [t |-> "boolean", v |-> b]

Str(s) == [t |-> "string", v |-> s]

\* house.f : reading a property the object does not have gives undefined
Get(h, f) == IF f \in DOMAIN h THEN h[f] ELSE Undefined

\* ToBoolean, as applied by ||, ! and if
Truthy(x) ==
  CASE x.t = "number" -> x.v # 0
    [] x.t = "boolean" -> x.v
    [] x.t = "string" -> x.v # <<>>
    [] OTHER -> FALSE

\* x || d
OrElse(x, d) == IF Truthy(x) THEN x ELSE d

\* x === true
IsTrue(x) == x.t = "boolean" /\ x.v

(***************************************************************************)
(* Text                                                                    *)
(***************************************************************************)
Digits == <<"0", "1", "2", "3", "4", "5", "6", "7", "8", "9">>

IsDigit(c) == \E i \in 1..10 : Digits[i] = c

DigitVal(c) == (CHOOSE i \in 1..10 : Digits[i] = c) - 1

Upper == <<"A", "B", "C", "D", "E", "F", "G", "H", "I", "J", "K", "L", "M",
           "N", "O", "P", "Q", "R", "S", "T", "U", "V", "W", "X", "Y", "Z">>

Lower == <<"a", "b", "c", "d", "e", "f", "g", "h", "i", "j", "k", "l", "m",
           "n", "o", "p", "q", "r", "s", "t", "u", "v", "w", "x", "y", "z">>

\* String.prototype.toLowerCase on text
toLowerCase(s) ==
  [i \in 1..Len(s) |->
     IF \E k \in 1..26 : Upper[k] = s[i]
     THEN Lower[CHOOSE k \in 1..26 : Upper[k] = s[i]]
     ELSE s[i]]

\* String.prototype.includes
includes(s, sub) ==
  \E i \in 0..(Len(s) - Len(sub)) :
    \A j \in 1..Len(sub) : s[i + j] = sub[j]

\* String.prototype.trim (space is the only white space of the model)
RECURSIVE trim(_)
trim(s) ==
  IF s = <<>> THEN s
  ELSE IF Head(s) = " " THEN trim(Tail(s))
  ELSE IF s[Len(s)] = " " THEN trim(SubSeq(s, 1, Len(s) - 1))
  ELSE s

\* Number.prototype.toString for the non-negative integers
RECURSIVE NatToString(_)
NatToString(n) ==
  IF n < 10 THEN <<Digits[n + 1]>>
  ELSE Append(NatToString(n \div 10), Digits[(n % 10) + 1])

\* Number.prototype.toString for the integers
NumToString(n) == IF n < 0 THEN <<"-">> \o NatToString(-n) ELSE NatToString(n)

\* (x || '').toString() for a text or number x
TextOf(x) ==
  LET y == OrElse(x, Str(<<>>))
  IN  IF y.t = "number" THEN NumToString(y.v) ELSE y.v

\* str.match(/(\d+)/): the first maximal run of digits, <<>> when the match
\* is null
matchDigits(str) ==
  IF \A i \in 1..Len(str) : ~IsDigit(str[i]) THEN <<>>
  ELSE LET first == CHOOSE i \in 1..Len(str) :
                      /\ IsDigit(str[i])
                      /\ \A j \in 1..(i - 1) : ~IsDigit(str[j])
           last  == CHOOSE k \in first..Len(str) :
                      /\ \A j \in first..k : IsDigit(str[j])
                      /\ (k = Len(str) \/ ~IsDigit(str[k + 1]))
       IN  SubSeq(str, first, last)

\* parseInt of a run of digits
RECURSIVE parseInt(_)
parseInt(ds) ==
  IF ds = <<>> THEN 0
  ELSE 10 * parseInt(SubSeq(ds, 1, Len(ds) - 1)) + DigitVal(ds[Len(ds)])

(***************************************************************************)
(* Exact numbers                                                           *)
(***************************************************************************)
Abs(n) == IF n < 0 THEN -n ELSE n

RECURSIVE GCD(_, _)
GCD(a, b) == IF b = 0 THEN a ELSE GCD(b, a % b)

\* the number n/d in lowest terms; n/0 is NaN (n = 0) or +-Infinity
Rat(n, d) ==
  IF d = 0 THEN [n |-> IF n > 0 THEN 1 ELSE IF n < 0 THEN -1 ELSE 0, d |-> 0]
  ELSE LET g == GCD(Abs(n), Abs(d))
           s == IF d < 0 THEN -1 ELSE 1
       IN  [n |-> s * (n \div g), d |-> s * (d \div g)]

Zero == [n |-> 0, d |-> 1]

IsNaN(x) == x.d = 0 /\ x.n = 0

IsFinite(x) == x.d > 0

\* sign of a/b - c/d for b, d > 0, by continued fractions: no product of
\* the operands is formed
RECURSIVE CmpFrac(_, _, _, _)
CmpFrac(a, b, c, d) ==
  LET q1 == a \div b
      q2 == c \div d
      r1 == a % b
      r2 == c % d
  IN  IF q1 < q2 THEN -1
      ELSE IF q1 > q2 THEN 1
      ELSE IF r1 = 0 /\ r2 = 0 THEN 0
      ELSE IF r1 = 0 THEN -1
      ELSE IF r2 = 0 THEN 1
      ELSE CmpFrac(d, r2, b, r1)

\* sign of x - y; 0 when x - y is NaN (the sort treats a NaN result as +0)
SignOfDifference(x, y) ==
  IF IsFinite(x) /\ IsFinite(y) THEN CmpFrac(x.n, x.d, y.n, y.d)
  ELSE IF IsNaN(x) \/ IsNaN(y) THEN 0
  ELSE IF x.d = 0 /\ y.d = 0 THEN (IF x.n = y.n THEN 0 ELSE x.n)
  ELSE IF x.d = 0 THEN x.n
  ELSE -y.n

(***************************************************************************)
(* calculateScore                                                          *)
(*                                                                         *)
(* A sub-score s (0..100 in the code) is held as the integer s * SCALE;    *)
(* SCALE = 21000 is the least common multiple of the denominators 5        *)
(* (fee / 5), 25 ((size - 1000) / 2500 * 100), 21 ((year - 1920) / 105 *   *)
(* 100) and 3000 ((price - 400000) / 300000 * 100), so that every          *)
(* sub-score of integer attributes is exact.                               *)
(***************************************************************************)
SCALE == 21000

Hundred == 100 * SCALE

Max(a, b) == IF a > b THEN a ELSE b

Min(a, b) == IF a < b THEN a ELSE b

WeightKeys == {"garageSpaces", "walkInCloset", "kitchenIsland", "distance",
               "yardMaintenance", "hoaFees", "size", "yearBuilt", "price"}

DefaultWeights ==
  [garageSpaces |-> 9, walkInCloset |-> 8, kitchenIsland |-> 8, distance |-> 9,
   yardMaintenance |-> 8, hoaFees |-> 6, size |-> 4, yearBuilt |-> 2,
   price |-> 2]

\* house.f || d for a numeric property
NumOr(house, f, d) == OrElse(Get(house, f), Num(d)).v

garageScore(house) ==
  LET garageSpaces == NumOr(house, "garage_spaces", 0)
  IN  IF garageSpaces >= 2 THEN Hundred
      ELSE IF garageSpaces = 1 THEN 50 * SCALE ELSE 0

hasWalkIn(house) == IsTrue(Get(house, "walk_in_closet"))

hasKitchen(house) == IsTrue(Get(house, "kitchen_island"))

hasHighMaintenanceYard(house) == IsTrue(Get(house, "yard_maintenance"))

\* lines 174-176: the minutes the scorer reads from the distance text
scoreDistance(house) ==
  LET distanceStr == TextOf(Get(house, "distance"))
      distanceMatch == matchDigits(distanceStr)
  IN  IF distanceMatch # <<>> THEN parseInt(distanceMatch) ELSE 50

\* the distance rule losing one point a minute instead of two
distanceScore_perMinute(house) ==
  Max(0, Hundred - scoreDistance(house) * SCALE)

distanceScore(house) == Max(0, Hundred - scoreDistance(house) * 2 * SCALE)

\* the HOA rule without its floor at 0
hoaScore_noFloor(house) ==
  LET hoaFees == NumOr(house, "hoa_fee", 0)
  IN  IF hoaFees = 0 THEN Hundred ELSE Hundred - hoaFees * (SCALE \div 5)

hoaScore(house) ==
  LET hoaFees == NumOr(house, "hoa_fee", 0)
  IN  IF hoaFees = 0 THEN Hundred
      ELSE Max(0, Hundred - hoaFees * (SCALE \div 5))

\* the size rule with the floor of the scale, 1000, as the default
sizeScore_default1000(house) ==
  LET size == NumOr(house, "size", 1000)
  IN  Min(Hundred, Max(0, (size - 1000) * (SCALE \div 25)))

sizeScore(house) ==
  LET size == NumOr(house, "size", 1500)
  IN  Min(Hundred, Max(0, (size - 1000) * (SCALE \div 25)))

yearScore(house) ==
  LET yearBuilt == NumOr(house, "year_built", 1950)
  IN  Min(Hundred, Max(0, (yearBuilt - 1920) * 20 * (SCALE \div 21)))

priceScore(house) ==
  LET price == NumOr(house, "price", 600000)
  IN  Min(Hundred, Max(0, Hundred - (price - 400000) * (SCALE \div 3000)))

\* the sub-score of each weight key, times SCALE
SubScore(house) ==
  [garageSpaces |-> garageScore(house),
   walkInCloset |-> IF hasWalkIn(house) THEN Hundred ELSE 0,
   kitchenIsland |-> IF hasKitchen(house) THEN Hundred ELSE 0,
   distance |-> distanceScore(house),
   yardMaintenance |-> IF hasHighMaintenanceYard(house) THEN 0 ELSE Hundred,
   hoaFees |-> hoaScore(house),
   size |-> sizeScore(house),
   yearBuilt |-> yearScore(house),
   price |-> priceScore(house)]

\* the accumulator score after line 208, times 100 * SCALE
ScoreSum(house, w) ==
  LET s == SubScore(house)
  IN  s.garageSpaces * w.garageSpaces
      + s.walkInCloset * w.walkInCloset
      + s.kitchenIsland * w.kitchenIsland
      + s.distance * w.distance
      + s.yardMaintenance * w.yardMaintenance
      + s.hoaFees * w.hoaFees
      + s.size * w.size
      + s.yearBuilt * w.yearBuilt
      + s.price * w.price

\* maxScore without the last weight added (line 209 left out)
MaxScore_withoutPrice(w) ==
  w.garageSpaces + w.walkInCloset + w.kitchenIsland + w.distance
  + w.yardMaintenance + w.hoaFees + w.size + w.yearBuilt

\* the accumulator maxScore after line 209
MaxScore(w) ==
  w.garageSpaces + w.walkInCloset + w.kitchenIsland + w.distance
  + w.yardMaintenance + w.hoaFees + w.size + w.yearBuilt + w.price

\* (score / maxScore) * 100
Quotient(house, w) == Rat(ScoreSum(house, w), SCALE * MaxScore(w))

\* the division of line 211 without its guard
calculateScore_unguarded(house, w) == Quotient(house, w)

calculateScore(house, w) ==
  IF MaxScore(w) > 0 THEN Quotient(house, w) ELSE Zero

(***************************************************************************)
(* scoredHouses: map, filter, sort                                         *)
(***************************************************************************)
SortKeys == {"score", "price", "distance", "sold"}

\* { ...house, calculated_score: calculateScore(house) }
WithScore(house, w) ==
  [f \in (DOMAIN house) \cup {"calculated_score"} |->
     IF f = "calculated_score" THEN calculateScore(house, w) ELSE house[f]]

\* houses.map(...)
Scored(hs, w) == [i \in 1..Len(hs) |-> WithScore(hs[i], w)]

\* house.f?.toLowerCase().includes(search)
FieldIncludes(house, f, search) ==
  LET x == Get(house, f)
  IN  x.t = "string" /\ includes(toLowerCase(x.v), search)

\* the callback without the early return for an empty term
matchesSearch_noEmptyReturn(house, term) ==
  LET search == toLowerCase(term)
  IN  \/ FieldIncludes(house, "address", search)
      \/ FieldIncludes(house, "city", search)
      \/ FieldIncludes(house, "style", search)

\* the callback with the term compared as typed
matchesSearch_termAsTyped(house, term) ==
  IF term = <<>> THEN TRUE
  ELSE \/ FieldIncludes(house, "address", term)
       \/ FieldIncludes(house, "city", term)
       \/ FieldIncludes(house, "style", term)

\* the callback of .filter
matchesSearch(house, term) ==
  IF term = <<>> THEN TRUE
  ELSE LET search == toLowerCase(term)
       IN  \/ FieldIncludes(house, "address", search)
           \/ FieldIncludes(house, "city", search)
           \/ FieldIncludes(house, "style", search)

RECURSIVE SelectSeq2(_, _)
\* Array.prototype.filter with matchesSearch
SelectSeq2(hs, term) ==
  IF hs = <<>> THEN <<>>
  ELSE IF matchesSearch(Head(hs), term)
       THEN <<Head(hs)>> \o SelectSeq2(Tail(hs), term)
       ELSE SelectSeq2(Tail(hs), term)

\* getDistance with the scorer's default
getDistance_default50(h) ==
  LET str == TextOf(Get(h, "distance"))
      match == matchDigits(str)
  IN  IF match # <<>> THEN parseInt(match) ELSE 50

\* lines 238-242: the minutes the distance sort reads from the distance text
getDistance(h) ==
  LET str == TextOf(Get(h, "distance"))
      match == matchDigits(str)
  IN  IF match # <<>> THEN parseInt(match) ELSE 99

Sign(n) == IF n < 0 THEN -1 ELSE IF n > 0 THEN 1 ELSE 0

\* sign of a?.price - b?.price: ToNumber(undefined) is NaN, ToNumber(null)
\* is 0, and a NaN comparison result counts as 0
priceDifference(a, b) ==
  LET x == Get(a, "price")
      y == Get(b, "price")
  IN  IF x.t = "undefined" \/ y.t = "undefined" THEN 0
      ELSE Sign((IF x.t = "null" THEN 0 ELSE x.v)
                - (IF y.t = "null" THEN 0 ELSE y.v))

\* the comparator of .sort, as the sign of its result
compare(a, b, key) ==
  IF key = "sold"
  THEN IF Get(a, "sold") = Get(b, "sold") THEN 0
       ELSE IF Truthy(Get(a, "sold")) THEN 1
       ELSE -1
  ELSE IF key = "score"
  THEN SignOfDifference(b.calculated_score, a.calculated_score)
  ELSE IF key = "price" THEN priceDifference(a, b)
  ELSE IF key = "distance" THEN Sign(getDistance(a) - getDistance(b))
  ELSE 0

\* ECMA-262 Array.prototype.sort: the comparator is a consistent comparator
\* for the elements of s
ConsistentComparator(s, key) ==
  LET I == 1..Len(s)
      c(i, j) == compare(s[i], s[j], key)
  IN  /\ \A i \in I : c(i, i) = 0
      /\ \A i, j \in I : c(i, j) = -c(j, i)
      /\ \A i, j, k \in I :
           /\ (c(i, j) = 0 /\ c(j, k) = 0) => c(i, k) = 0
           /\ (c(i, j) < 0 /\ c(j, k) < 0) => c(i, k) < 0
           /\ (c(i, j) > 0 /\ c(j, k) > 0) => c(i, k) > 0

RECURSIVE InsertSorted(_, _, _)
\* x placed behind every element it does not precede
InsertSorted(s, x, key) ==
  IF s = <<>> THEN <<x>>
  ELSE IF compare(x, s[Len(s)], key) < 0
       THEN Append(InsertSorted(SubSeq(s, 1, Len(s) - 1), x, key), s[Len(s)])
       ELSE Append(s, x)

RECURSIVE StableSort(_, _)
StableSort(s, key) ==
  IF s = <<>> THEN <<>>
  ELSE InsertSorted(StableSort(SubSeq(s, 1, Len(s) - 1), key), s[Len(s)], key)

\* Array.prototype.sort: stable for a consistent comparator; otherwise the
\* order is implementation-defined, any permutation of the elements
SortResults(s, key) ==
  IF ConsistentComparator(s, key) THEN {StableSort(s, key)}
  ELSE {[i \in 1..Len(s) |-> s[p[i]]] : p \in Permutations(1..Len(s))}

\* the values the useMemo callback of scoredHouses can return
Evaluate(hs, key, w, term) == SortResults(SelectSeq2(Scored(hs, w), term), key)

\* the dependency array without weights
MemoDeps_withoutWeights(hs, key, w, term) == <<hs, key, term>>

\* the dependency array of useMemo (line 247)
MemoDeps(hs, key, w, term) == <<hs, key, w, term>>

\* useMemo during a render with the state hs, key, w, term: the callback
\* runs when a dependency differs from the last run's.  (React compares by
\* identity; a state of equal value evaluates to the same results.)
UseMemo(hs, key, w, term) ==
  IF memoDeps = MemoDeps(hs, key, w, term)
  THEN UNCHANGED <<memoDeps, scoredHouses>>
  ELSE /\ memoDeps' = MemoDeps(hs, key, w, term)
       /\ scoredHouses' \in Evaluate(hs, key, w, term)

\* the chain as houses.sort(...) would leave the state array: reordered in
\* place, holding the objects of the output
housesAfter_sortedInPlace(hs, out) == out

\* the state array houses after the callback returned out.  map (line 216)
\* returns a new array of objects made by the spread, filter (line 220)
\* returns a new array, and sort (line 229) reorders its receiver, the array
\* filter returned: nothing is assigned to houses or to an object of it.
housesAfter(hs, out) == hs

\* the first render of the component over given inputs
Render ==
  /\ memoDeps = <<>>
  /\ UseMemo(houses, sortBy, weights, searchTerm)
  /\ houses' = housesAfter(houses, scoredHouses')
  /\ UNCHANGED <<weights, sortBy, searchTerm, budgetLimit, form, db, load, op,
                 started>>

\* the memoised value exists
Rendered == memoDeps # <<>>

\* the annotation with the scorer's default for a missing price
overBudget_default600000(house, limit) == NumOr(house, "price", 600000) > limit

\* line 763: the 'Over Budget' annotation of a displayed listing
overBudget(house, limit) == NumOr(house, "price", 0) > limit

(***************************************************************************)
(* Enumerated inputs                                                       *)
(***************************************************************************)
\* the longest listing collection enumerated
MaxHouses == 3

Txt15min == <<"1", "5", " ", "m", "i", "n">>

Txt120min == <<"1", "2", "0", " ", "m", "i", "n">>

Txt99min == <<"9", "9", " ", "m", "i", "n">>

Txt60min == <<"6", "0", " ", "m", "i", "n">>

Txt7to9 == <<"a", "b", "o", "u", "t", " ", "0", "7", " ", "t", "o", " ", "9">>

TxtFar == <<"f", "a", "r">>

TxtMinus5 == <<"-", "5">>

\* the listing of the first concrete scenario
BaseHouse ==
  [id |-> Str(<<"b">>),
   address |-> Str(<<"1", "2", " ", "E", "l", "m">>),
   city |-> Str(<<"T", "r", "o", "y">>),
   style |-> Str(<<"R", "a", "n", "c", "h">>),
   price |-> Num(450000), size |-> Num(2000), year_built |-> Num(2010),
   garage_spaces |-> Num(2), walk_in_closet |-> Bool(TRUE),
   kitchen_island |-> Bool(TRUE), yard_maintenance |-> Bool(FALSE),
   hoa_fee |-> Num(0), distance |-> Str(Txt15min), sold |-> Bool(FALSE)]

\* the listing of the second concrete scenario
FloorHouse ==
  [id |-> Str(<<"f">>),
   address |-> Str(<<"O", "a", "k">>),
   city |-> Str(<<"R", "y", "e">>),
   style |-> Str(<<>>),
   price |-> Num(750000), size |-> Num(800), year_built |-> Num(1900),
   garage_spaces |-> Num(0), walk_in_closet |-> Bool(FALSE),
   kitchen_island |-> Bool(FALSE), yard_maintenance |-> Bool(TRUE),
   hoa_fee |-> Num(300), distance |-> Str(Txt60min), sold |-> Bool(TRUE)]

\* a listing with nothing but an identifier and an address
BareHouse == [id |-> Str(<<"e">>), address |-> Str(<<"O", "a", "k">>)]

ScoreFields == {"garage_spaces", "walk_in_closet", "kitchen_island",
                "distance", "yard_maintenance", "hoa_fee", "size",
                "year_built", "price"}

\* the values enumerated for a property; Undefined is the absent property
FieldValues(f) ==
  CASE f = "garage_spaces" ->
         {Undefined, Null, Num(-1), Num(0), Num(1), Num(2), Num(3)}
    [] f = "hoa_fee" ->
         {Undefined, Null, Num(-50), Num(0), Num(5), Num(250), Num(500),
          Num(600)}
    [] f = "size" ->
         {Undefined, Null, Num(-100), Num(0), Num(800), Num(1000), Num(2000),
          Num(3500), Num(4000)}
    [] f = "year_built" ->
         {Undefined, Null, Num(-1), Num(0), Num(1900), Num(1920), Num(2010),
          Num(2025), Num(2030)}
    [] f = "price" ->
         {Undefined, Null, Num(-1000), Num(0), Num(300000), Num(400000),
          Num(450000), Num(700000), Num(750000)}
    [] f = "distance" ->
         {Undefined, Null, Str(<<>>), Str(TxtFar), Str(Txt15min),
          Str(Txt7to9), Str(Txt120min), Str(TxtMinus5), Num(0), Num(30)}
    [] OTHER -> {Undefined, Null, Bool(FALSE), Bool(TRUE)}

\* h with property f set to x, or without f when x is Undefined
Patch(h, f, x) ==
  IF x = Undefined THEN [g \in (DOMAIN h) \ {f} |-> h[g]]
  ELSE [g \in (DOMAIN h) \cup {f} |-> IF g = f THEN x ELSE h[g]]

Variants(h) ==
  UNION {{Patch(h, f, x) : x \in FieldValues(f)} : f \in ScoreFields}

\* the listings that differ from a scenario listing in at most one property
ScoreHouses ==
  Variants(BaseHouse) \cup Variants(FloorHouse) \cup Variants(BareHouse)

ZeroWeights == [k \in WeightKeys |-> 0]

WeightValues == {-3, 0, 3, 12}

WeightVariants(w) ==
  {[w EXCEPT ![k] = v] : k \in WeightKeys, v \in WeightValues}

\* the weights that differ from all-zero or from the defaults in at most two
\* entries
ScoreWeights ==
  UNION {WeightVariants(w) :
           w \in WeightVariants(ZeroWeights) \cup WeightVariants(DefaultWeights)}

FewWeights ==
  {DefaultWeights, ZeroWeights}
  \cup {[ZeroWeights EXCEPT ![k] = 1] : k \in WeightKeys}

FewHouses == {BaseHouse, FloorHouse, BareHouse}

\* a listing of the ranking pool: the scoring attributes of BaseHouse, except
\* for price and distance
RankHouse(id, address, city, style, price, distance, sold) ==
  Patch(Patch(Patch(Patch(Patch(Patch(Patch(BaseHouse,
    "id", Str(<<id>>)), "address", address), "city", city), "style", style),
    "price", price), "distance", distance), "sold", sold)

RankPool ==
  {RankHouse("1", Str(<<"1", "2", " ", "E", "l", "m">>),
             Str(<<"T", "r", "o", "y">>), Str(<<"R", "a", "n", "c", "h">>),
             Num(450000), Str(Txt15min), Bool(FALSE)),
   RankHouse("2", Str(<<"O", "a", "k">>), Str(<<"t", "r", "o", "y">>),
             Str(<<>>), Num(450000), Str(<<>>), Undefined),
   RankHouse("3", Str(<<"9", " ", "E", "L", "M">>), Str(<<"R", "y", "e">>),
             Str(<<"C", "a", "p", "e">>), Undefined, Str(Txt120min),
             Bool(TRUE)),
   RankHouse("4", Null, Undefined, Null, Num(300000), Str(TxtFar), Null),
   RankHouse("5", Str(<<"E", "l", "m", "o">>), Undefined, Undefined,
             Num(700000), Str(Txt7to9), Bool(TRUE)),
   RankHouse("6", Str(<<"O", "a", "k">>), Str(<<"T", "r", "o", "y">>),
             Str(<<"C", "a", "p", "e">>), Null, Str(Txt99min), Bool(FALSE))}

\* the sequences of at most n distinct listings of the pool
RECURSIVE Lists(_, _)
Lists(pool, n) ==
  IF n = 0 THEN {<<>>}
  ELSE LET shorter == Lists(pool, n - 1)
       IN  shorter \cup
           {Append(l, h) : l \in {x \in shorter : Len(x) = n - 1},
                           h \in pool}

Distinct(l) == \A i, j \in 1..Len(l) : i # j => l[i] # l[j]

RankLists == {l \in Lists(RankPool, MaxHouses) : Distinct(l)}

SearchTerms ==
  {<<>>, <<" ">>, <<" ", " ">>, <<"e", "l", "m">>, <<"E", "L", "M">>,
   <<"T", "r", "o", "y">>, <<"r", "a", "n", "c", "h">>, <<"z">>}

(***************************************************************************)
(* The component: state, handlers and the remote store                     *)
(***************************************************************************)
\* the user actions (clicks, inputs) of one behaviour
MaxActions == 3

\* a user action is counted
UserAction == started < MaxActions /\ started' = started + 1

\* the identifiers uuidV4 can return, in the order it returns them
UuidSeq == <<Str(<<"u", "1">>), Str(<<"u", "2">>)>>

Uuid(i) == UuidSeq[i]

Uuids == {Uuid(i) : i \in 1..Len(UuidSeq)}

\* emptyHouse (lines 41-60) with the identifier id; bedrooms, bathrooms and
\* thumbnail_url, which nothing reads, are left out
emptyHouse(id) ==
  [id |-> id, address |-> Str(<<>>), city |-> Str(<<>>), price |-> Num(0),
   size |-> Num(0), style |-> Str(<<>>), year_built |-> Num(0),
   garage_spaces |-> Num(0), walk_in_closet |-> Bool(FALSE),
   kitchen_island |-> Bool(FALSE), yard_maintenance |-> Bool(FALSE),
   sold |-> Bool(FALSE), hoa_fee |-> Num(0), distance |-> Str(<<>>),
   calculated_score |-> Zero]

\* the columns of the table: the properties of the records the form inserts
Columns == DOMAIN emptyHouse(Null)

\* select('*'): a stored row has every column, null where none was given
StoredRow(row) ==
  [c \in Columns \cup DOMAIN row |-> IF c \in DOMAIN row THEN row[c] ELSE Null]

Idle == [kind |-> "idle"]

\* no data: the store reported an error
NoData == [ok |-> FALSE, rows |-> <<>>]

Data(rows) == [ok |-> TRUE, rows |-> rows]

\* the request in flight, answered with data
Answered(o, data) ==
  [f \in (DOMAIN o) \cup {"data"} |->
     IF f = "data" THEN data ELSE IF f = "pc" THEN "response" ELSE o[f]]

Ids(rows) == {rows[i].id : i \in 1..Len(rows)}

\* the identifiers held anywhere in the component or the store
UsedIds ==
  Ids(db) \cup Ids(houses) \cup Ids(scoredHouses)
  \cup (IF op.kind \in {"add", "edit"} THEN {op.house.id} ELSE {})
  \cup (IF op.kind = "delete" THEN {op.id} ELSE {})
  \cup (IF load.pc = "response" THEN Ids(load.data.rows) ELSE {})
  \cup (IF editingHouse = Null THEN {} ELSE {editingHouse.id})

\* uuidV4(): an identifier not in use (the first such; an identifier that
\* was drawn for a form never submitted is as good as new)
FreshIds(used) == Uuids \ used

uuidV4(used) ==
  Uuid(CHOOSE i \in 1..Len(UuidSeq) :
         Uuid(i) \notin used /\ \A j \in 1..(i - 1) : Uuid(j) \in used)

\* the rows Papa.parse reads from the file the user picks: a listing and a
\* row whose address is blank
CsvFile ==
  <<RankHouse("1", Str(<<"1", "2", " ", "E", "l", "m">>),
              Str(<<"T", "r", "o", "y">>), Str(<<"R", "a", "n", "c", "h">>),
              Num(450000), Str(Txt15min), Undefined),
    RankHouse("9", Str(<<" ">>), Str(<<"R", "y", "e">>), Undefined,
              Num(300000), Str(Txt60min), Undefined)>>

\* the stores the component can be mounted on
InitialStores ==
  {<<StoredRow(FloorHouse),
     StoredRow(RankHouse("3", Str(<<"9", " ", "E", "L", "M">>),
                         Str(<<"R", "y", "e">>), Str(<<"C", "a", "p", "e">>),
                         Undefined, Str(Txt120min), Bool(TRUE)))>>}

\* what the user moves a weight slider to (e.target.value), and the sliders
\* moved
SliderValues == {<<"0">>, <<"1", "0">>}

SliderKeys == {"distance"}

\* what the user types in the search box
TypedTerms == {<<>>, <<"e", "l", "m">>}

\* what the user moves the budget slider to
BudgetValues == {<<"4", "0", "0", "0", "0", "0">>}

\* what the user enters in the form
FormInputs == {<<"distance", Str(Txt15min)>>}

\* the render that follows a change of state: useMemo over the new state
Rerender == UseMemo(houses', sortBy', weights', searchTerm')

\* handleWeightChange (lines 249-251); parseFloat reads the slider's digits
handleWeightChange(key, value) ==
  /\ UserAction
  /\ weights' = [weights EXCEPT ![key] = parseInt(value)]
  /\ UNCHANGED <<houses, sortBy, searchTerm, budgetLimit, form, db, load, op>>
  /\ Rerender

\* the four sort buttons (lines 446-469)
setSortBy(key) ==
  /\ UserAction
  /\ sortBy' = key
  /\ UNCHANGED <<weights, houses, searchTerm, budgetLimit, form, db, load, op>>
  /\ Rerender

\* the search box (line 428)
setSearchTerm(term) ==
  /\ UserAction
  /\ searchTerm' = term
  /\ UNCHANGED <<weights, houses, sortBy, budgetLimit, form, db, load, op>>
  /\ Rerender

\* the budget slider (line 409)
setBudgetLimit(value) ==
  /\ UserAction
  /\ budgetLimit' = parseInt(value)
  /\ UNCHANGED <<weights, houses, sortBy, searchTerm, form, db, load, op>>
  /\ Rerender

\* loadHousesFromDB, line 65: the store answers the select
LoadQuery ==
  /\ load.pc = "request"
  /\ \E data \in {NoData, Data(db)} : load' = [pc |-> "response", data |-> data]
  /\ UNCHANGED <<view, memoDeps, scoredHouses, form, db, op, started>>

\* loadHousesFromDB, lines 66-68: the answer arrives
LoadResolve ==
  /\ load.pc = "response"
  /\ houses' = IF load.data.ok THEN load.data.rows ELSE houses
  /\ load' = [pc |-> "done"]
  /\ UNCHANGED <<weights, sortBy, searchTerm, budgetLimit, form, db, op, started>>
  /\ Rerender

\* the Add House button (lines 437-441); emptyHouse carries the identifier
\* drawn in the current render
ToggleAddForm ==
  /\ UserAction
  /\ FreshIds(UsedIds) # {}
  /\ showAddForm' = ~showAddForm
  /\ editingHouse' = Null
  /\ formData' = emptyHouse(uuidV4(UsedIds))
  /\ UNCHANGED <<view, memoDeps, scoredHouses, db, load, op>>

\* handleFormChange (lines 253-258)
handleFormChange(field, value) ==
  /\ UserAction
  /\ showAddForm
  /\ formData' = Patch(formData, field, value)
  /\ UNCHANGED <<view, memoDeps, scoredHouses, editingHouse, showAddForm, db,
                 load, op>>

\* handleEdit (lines 276-280), on a listing of the displayed sequence
handleEdit(house) ==
  /\ UserAction
  /\ editingHouse' = house
  /\ formData' = house
  /\ showAddForm' = TRUE
  /\ UNCHANGED <<view, memoDeps, scoredHouses, db, load, op>>

\* handleSubmit, lines 260-262 and 268, up to the request to the store
handleSubmit ==
  /\ showAddForm
  /\ op = Idle
  /\ UserAction
  /\ FreshIds(UsedIds \cup {formData.id}) # {}
  /\ IF editingHouse # Null
     THEN op' = [kind |-> "edit", pc |-> "request", id |-> editingHouse.id,
                 house |-> formData]
     ELSE op' = [kind |-> "add", pc |-> "request", house |-> formData]
  /\ UNCHANGED <<view, memoDeps, scoredHouses, form, db, load>>

\* handleDelete, lines 282-284, confirmed, up to the request to the store
handleDelete(house) ==
  /\ op = Idle
  /\ UserAction
  /\ op' = [kind |-> "delete", pc |-> "request", id |-> house.id]
  /\ UNCHANGED <<view, memoDeps, scoredHouses, form, db, load>>

\* lines 136-138
cleanedHouses(rows) ==
  SelectSeq(rows, LAMBDA house :
    /\ Truthy(Get(house, "address"))
    /\ trim(Get(house, "address").v) # <<>>)

\* handleFileUpload and reader.onload, lines 111-145, up to the first request
handleFileUpload(rows) ==
  /\ op = Idle
  /\ UserAction
  /\ cleanedHouses(rows) # <<>>
  /\ op' = [kind |-> "upload", pc |-> "request", rows |-> cleanedHouses(rows),
            i |-> 1]
  /\ UNCHANGED <<view, memoDeps, scoredHouses, form, db, load>>

\* the record the request in flight hands to the store
Sent == IF op.kind = "upload" THEN op.rows[op.i] ELSE op.house

\* insert(house).select('*'): the row is stored unless its identifier is
\* taken or the store fails
StoreInsert ==
  /\ op.kind \in {"add", "upload"}
  /\ op.pc = "request"
  /\ \/ /\ Sent.id \notin Ids(db)
        /\ db' = Append(db, StoredRow(Sent))
        /\ op' = Answered(op, Data(<<StoredRow(Sent)>>))
     \/ /\ db' = db
        /\ op' = Answered(op, NoData)
  /\ UNCHANGED <<view, memoDeps, scoredHouses, form, load, started>>

\* update(house).eq('id', id).select('*')
StoreUpdate ==
  /\ op.kind = "edit"
  /\ op.pc = "request"
  /\ LET hit == {i \in 1..Len(db) : db[i].id = op.id}
         new == [i \in 1..Len(db) |->
                   IF i \in hit THEN StoredRow(op.house) ELSE db[i]]
     IN  \/ /\ db' = new
            /\ op' = Answered(op, Data([i \in 1..Cardinality(hit) |->
                                            StoredRow(op.house)]))
         \/ /\ db' = db
            /\ op' = Answered(op, NoData)
  /\ UNCHANGED <<view, memoDeps, scoredHouses, form, load, started>>

\* delete().eq('id', id).select('*')
StoreDelete ==
  /\ op.kind = "delete"
  /\ op.pc = "request"
  /\ \/ /\ db' = SelectSeq(db, LAMBDA r : r.id # op.id)
        /\ op' = Answered(op, Data(SelectSeq(db, LAMBDA r : r.id = op.id)))
     \/ /\ db' = db
        /\ op' = Answered(op, NoData)
  /\ UNCHANGED <<view, memoDeps, scoredHouses, form, load, started>>

\* saveHouseToDB, lines 74-78: the state update of a save that returned data
Saved(hs) ==
  IF op.data.ok /\ Len(op.data.rows) > 0 THEN hs \o op.data.rows ELSE hs

\* handleSubmit without editingHouse, lines 268-273, after the answer
SubmitAddResolve ==
  /\ op.kind = "add"
  /\ op.pc = "response"
  /\ houses' = Saved(houses)
  /\ formData' = emptyHouse(uuidV4(UsedIds))
  /\ showAddForm' = FALSE
  /\ op' = Idle
  /\ UNCHANGED <<weights, sortBy, searchTerm, budgetLimit, editingHouse, db,
                 load, started>>
  /\ Rerender

\* handleSubmit with editingHouse, lines 262-266 and 271-273, after the
\* answer.  Line 264 replaces nothing: editingHouse is an object of
\* scoredHouses, made by the spread of line 216, never an object of houses.
SubmitEditResolve ==
  /\ op.kind = "edit"
  /\ op.pc = "response"
  /\ houses' = IF op.data.ok /\ Len(op.data.rows) > 0
               THEN [i \in 1..Len(houses) |->
                       IF houses[i].id = op.id THEN op.data.rows[1]
                       ELSE houses[i]]
               ELSE houses
  /\ editingHouse' = Null
  /\ formData' = emptyHouse(uuidV4(UsedIds))
  /\ showAddForm' = FALSE
  /\ op' = Idle
  /\ UNCHANGED <<weights, sortBy, searchTerm, budgetLimit, db, load, started>>
  /\ Rerender

\* handleDelete, lines 104-106 and 285, after the answer.  Line 285 removes
\* nothing: house is an object of scoredHouses.
DeleteResolve ==
  /\ op.kind = "delete"
  /\ op.pc = "response"
  /\ houses' = IF op.data.ok
               THEN SelectSeq(houses, LAMBDA h : h.id # op.id)
               ELSE houses
  /\ op' = Idle
  /\ UNCHANGED <<weights, sortBy, searchTerm, budgetLimit, form, db, load, started>>
  /\ Rerender

\* reader.onload, lines 144-148, after the answer to a save: the next save,
\* or line 147 after the last one
UploadResolve ==
  /\ op.kind = "upload"
  /\ op.pc = "response"
  /\ IF op.i < Len(op.rows)
     THEN /\ houses' = Saved(houses)
          /\ op' = [kind |-> "upload", pc |-> "request", rows |-> op.rows,
                    i |-> op.i + 1]
     ELSE /\ houses' = op.rows
          /\ op' = Idle
  /\ UNCHANGED <<weights, sortBy, searchTerm, budgetLimit, form, db, load, started>>
  /\ Rerender

\* the component after its first render over an empty collection, the mount
\* effect having called loadHousesFromDB
Init ==
  /\ weights = DefaultWeights
  /\ houses = <<>>
  /\ sortBy = "score"
  /\ searchTerm = <<>>
  /\ budgetLimit = 600000
  /\ memoDeps = MemoDeps(<<>>, "score", DefaultWeights, <<>>)
  /\ scoredHouses = <<>>
  /\ formData = emptyHouse(Uuid(1))
  /\ editingHouse = Null
  /\ showAddForm = FALSE
  /\ db \in InitialStores
  /\ load = [pc |-> "request"]
  /\ op = Idle
  /\ started = 0

Next ==
  \/ \E key \in SliderKeys, value \in SliderValues :
       handleWeightChange(key, value)
  \/ \E key \in SortKeys : setSortBy(key)
  \/ \E term \in TypedTerms : setSearchTerm(term)
  \/ \E value \in BudgetValues : setBudgetLimit(value)
  \/ LoadQuery
  \/ LoadResolve
  \/ ToggleAddForm
  \/ \E input \in FormInputs : handleFormChange(input[1], input[2])
  \/ \E i \in 1..Len(scoredHouses) : handleEdit(scoredHouses[i])
  \/ handleSubmit
  \/ \E i \in 1..Len(scoredHouses) : handleDelete(scoredHouses[i])
  \/ handleFileUpload(CsvFile)
  \/ StoreInsert
  \/ StoreUpdate
  \/ StoreDelete
  \/ SubmitAddResolve
  \/ SubmitEditResolve
  \/ DeleteResolve
  \/ UploadResolve

Spec == Init /\ [][Next]_vars

\* the component is not mounted: only the inputs of an evaluation are given
Unmounted ==
  /\ formData = emptyHouse(Uuid(1))
  /\ editingHouse = Null
  /\ showAddForm = FALSE
  /\ db = <<>>
  /\ load = [pc |-> "done"]
  /\ op = Idle
  /\ started = 0

\* one listing and its weights are given and the render pass has not run
InitScore ==
  /\ \E h \in ScoreHouses \cup FewHouses, w \in FewWeights \cup ScoreWeights :
       /\ h \in FewHouses \/ w \in FewWeights
       /\ houses = <<h>>
       /\ weights = w
  /\ sortBy = "score"
  /\ searchTerm = <<>>
  /\ budgetLimit = 600000
  /\ memoDeps = <<>>
  /\ scoredHouses = <<>>
  /\ Unmounted

SpecScore == InitScore /\ [][Render]_vars

\* a collection, a search term and a sort key are given and the render pass
\* has not run
InitRank ==
  /\ houses \in RankLists
  /\ \/ weights = DefaultWeights /\ sortBy \in SortKeys
        /\ searchTerm \in SearchTerms
     \/ weights = ZeroWeights /\ sortBy = "score" /\ searchTerm = <<>>
  /\ budgetLimit = 600000
  /\ memoDeps = <<>>
  /\ scoredHouses = <<>>
  /\ Unmounted

SpecRank == InitRank /\ [][Render]_vars

(***************************************************************************)
(* Properties of calculateScore, over SpecScore                            *)
(***************************************************************************)
RECURSIVE SumOver(_, _)
\* the sum of f[k] over the keys k in K
SumOver(f, K) ==
  IF K = {} THEN 0
  ELSE LET k == CHOOSE x \in K : TRUE IN f[k] + SumOver(f, K \ {k})

\* the sum of the nine weights
TotalWeight(w) == SumOver(w, WeightKeys)

\* the sum of the nine weighted contributions, times 100 * SCALE
TotalContribution(house, w) ==
  SumOver([k \in WeightKeys |-> SubScore(house)[k] * w[k]], WeightKeys)

\* x = (sum of contributions / sum of weights) * 100, for a sum of weights
\* other than 0
IsLinearScore(x, house, w) ==
  LET n == TotalContribution(house, w)
      d == SCALE * TotalWeight(w)
  IN  /\ IsFinite(x)
      /\ CmpFrac(x.n, x.d, IF d < 0 THEN -n ELSE n, Abs(d)) = 0

\* 0 <= x <= 100
InUnitRange(x) == IsFinite(x) /\ 0 <= x.n /\ x.n <= 100 * x.d

\* the numeric attributes of the listing that are present are not negative
NonNegativeHouse(house) ==
  \A f \in {"garage_spaces", "hoa_fee", "size", "year_built", "price",
            "distance"} :
    Get(house, f).t = "number" => Get(house, f).v >= 0

\* C1: when the nine weights sum to 0, every evaluated listing has the
\* score 0, a defined number.
C1_ZeroWeightScoreZero ==
  (Rendered /\ TotalWeight(weights) = 0) =>
    \A i \in 1..Len(scoredHouses) : scoredHouses[i].calculated_score = Zero

\* weights that cancel to 0 without being all 0, and a listing whose
\* contributions do not cancel
C1_Witness ==
  /\ Rendered
  /\ TotalWeight(weights) = 0
  /\ weights # ZeroWeights
  /\ Len(scoredHouses) = 1
  /\ TotalContribution(houses[1], weights) # 0
  /\ scoredHouses[1].calculated_score = Zero

\* C2: for non-negative attributes (present or missing) and non-negative
\* weights the score lies in [0,100].
C2_ScoreInRange ==
  (Rendered /\ \A k \in WeightKeys : weights[k] >= 0) =>
    \A i \in 1..Len(scoredHouses) :
      NonNegativeHouse(houses[i]) =>
        InUnitRange(scoredHouses[i].calculated_score)

\* a listing with a fee above 500, scored by the fee alone: sub-score 0
C2_Witness ==
  /\ Rendered
  /\ Len(scoredHouses) = 1
  /\ weights = [ZeroWeights EXCEPT !["hoaFees"] = 1]
  /\ Get(houses[1], "hoa_fee") = Num(600)
  /\ "price" \notin DOMAIN houses[1]
  /\ scoredHouses[1].calculated_score = Zero

\* C9 as stated: the linear formula whenever the sum of the weights is not
\* 0, the score 0 only for a sum of exactly 0.
C9_Original ==
  Rendered =>
    \A i \in 1..Len(scoredHouses) :
      IF TotalWeight(weights) # 0
      THEN IsLinearScore(scoredHouses[i].calculated_score, houses[i], weights)
      ELSE scoredHouses[i].calculated_score = Zero

\* C9 amended: the linear formula whenever the sum of the weights is
\* positive, for weights of either sign and above 10; the score 0 for a sum
\* that is 0 or negative.
C9_LinearWhenPositive ==
  Rendered =>
    \A i \in 1..Len(scoredHouses) :
      IF TotalWeight(weights) > 0
      THEN IsLinearScore(scoredHouses[i].calculated_score, houses[i], weights)
      ELSE scoredHouses[i].calculated_score = Zero

\* a negative weight and a weight above 10 with a positive sum, and a score
\* other than 0
C9_Witness ==
  /\ Rendered
  /\ Len(scoredHouses) = 1
  /\ TotalWeight(weights) > 0
  /\ \E k \in WeightKeys : weights[k] < 0
  /\ \E k \in WeightKeys : weights[k] > 10
  /\ scoredHouses[1].calculated_score # Zero

\* C10: each of the nine sub-scores of an evaluated listing lies in [0,100],
\* for negative, zero and missing attribute values alike.
C10_SubScoresInRange ==
  Rendered =>
    \A i \in 1..Len(houses) :
      \A k \in WeightKeys :
        0 <= SubScore(houses[i])[k] /\ SubScore(houses[i])[k] <= Hundred

\* the attributes C11 names, what counts as missing for each, and the value
\* a missing attribute is scored as
DefaultedFields ==
  {"size", "year_built", "price", "garage_spaces", "hoa_fee",
   "walk_in_closet", "kitchen_island", "yard_maintenance"}

IsMissing(house, f) ==
  \/ Get(house, f) \in {Undefined, Null}
  \/ f \in {"size", "year_built", "price"} /\ Get(house, f) = Num(0)

DefaultOf(f) ==
  CASE f = "size" -> Num(1500)
    [] f = "year_built" -> Num(1950)
    [] f = "price" -> Num(600000)
    [] f \in {"garage_spaces", "hoa_fee"} -> Num(0)
    [] OTHER -> Bool(FALSE)

\* C11: a listing whose size, year built or price is absent, null or 0 has
\* the score of the same listing with size 1500, year 1950 or price 600000;
\* with garage spaces or HOA fee absent or null, the score of the listing
\* with the value 0; with a flag absent or null, the score of the listing
\* with the flag false.
C11_MissingScoresAsDefault ==
  Rendered =>
    \A i \in 1..Len(scoredHouses) :
      \A f \in DefaultedFields :
        IsMissing(houses[i], f) =>
          scoredHouses[i].calculated_score
            = calculateScore(Patch(houses[i], f, DefaultOf(f)), weights)

\* a listing without a size, weighted by size, with the score of the size
\* 1500 and not that of the size 1000
C11_Witness ==
  /\ Rendered
  /\ Len(scoredHouses) = 1
  /\ "size" \notin DOMAIN houses[1]
  /\ weights = DefaultWeights
  /\ scoredHouses[1].calculated_score
       = calculateScore(Patch(houses[1], "size", Num(1500)), weights)
  /\ scoredHouses[1].calculated_score
       # calculateScore(Patch(houses[1], "size", Num(1000)), weights)

\* the listing has the nine attributes of the first concrete scenario
IsScenarioListing(h) ==
  \A f \in ScoreFields : Get(h, f) = BaseHouse[f]

\* x shows as 89.8 with one decimal place: 89.75 <= x < 89.85
RoundsTo89point8(x) ==
  /\ IsFinite(x)
  /\ CmpFrac(x.n, x.d, 359, 4) >= 0
  /\ CmpFrac(x.n, x.d, 1797, 20) < 0

\* C15: with the weights 9, 8, 8, 9, 8, 6, 4, 2, 2 the listing of the first
\* concrete scenario has a score that rounds to 89.8.
C15_ScenarioScore ==
  (Rendered /\ weights = DefaultWeights) =>
    \A i \in 1..Len(scoredHouses) :
      IsScenarioListing(houses[i]) =>
        RoundsTo89point8(scoredHouses[i].calculated_score)

\* the scenario evaluated: 10559/210 of 56 points, 52795/588 = 89.787...
C15_Witness ==
  /\ Rendered
  /\ weights = DefaultWeights
  /\ TotalWeight(weights) = 56
  /\ houses = <<BaseHouse>>
  /\ scoredHouses[1].calculated_score = Rat(52795, 588)

(***************************************************************************)
(* Properties of the filter and the sort, over SpecRank                    *)
(***************************************************************************)
\* the positions of the input collection, and the position in the output of
\* the listing at input position i (0 when it is filtered out)
InputPositions == 1..Len(houses)

OutputPositions(i) ==
  {j \in 1..Len(scoredHouses) : scoredHouses[j].id = houses[i].id}

Shown(i) == OutputPositions(i) # {}

PositionOf(i) == CHOOSE j \in OutputPositions(i) : TRUE

\* two characters that differ at most in case
SameLetter(c, e) ==
  \/ c = e
  \/ \E k \in 1..26 : {c, e} = {Upper[k], Lower[k]}

\* term occurs in the text x, case ignored
OccursIn(term, x) ==
  /\ x.t = "string"
  /\ \E i \in 0..(Len(x.v) - Len(term)) :
       \A j \in 1..Len(term) : SameLetter(x.v[i + j], term[j])

\* C4 as stated: a search term that is empty after trimming retains every
\* listing.
C4_Original ==
  (Rendered /\ trim(searchTerm) = <<>>) => \A i \in InputPositions : Shown(i)

\* C4 amended: the empty search term retains every listing, whatever its
\* address, city and style are; a term of white space is a term like any
\* other.
C4_EmptyTermKeepsAll ==
  (Rendered /\ searchTerm = <<>>) =>
    /\ Len(scoredHouses) = Len(houses)
    /\ \A i \in InputPositions : Shown(i)

\* an empty term, and a listing kept whose address, city and style are all
\* null or absent
C4_Witness ==
  /\ Rendered
  /\ searchTerm = <<>>
  /\ Len(houses) = MaxHouses
  /\ \E i \in InputPositions :
       /\ Shown(i)
       /\ \A f \in {"address", "city", "style"} :
            Get(houses[i], f).t \in {"null", "undefined"}

\* C5: for a non-empty term the output holds exactly the listings in which
\* the term occurs, case ignored, in the address, the city or the style,
\* each once.
C5_ExactlyTheMatches ==
  (Rendered /\ searchTerm # <<>>) =>
    /\ \A i \in InputPositions :
         IF \E f \in {"address", "city", "style"} :
              OccursIn(searchTerm, Get(houses[i], f))
         THEN Cardinality(OutputPositions(i)) = 1
         ELSE ~Shown(i)
    /\ \A j \in 1..Len(scoredHouses) :
         \E i \in InputPositions : houses[i].id = scoredHouses[j].id

\* a term in capitals that keeps one listing by its address in lower case
\* and drops another
C5_Witness ==
  /\ Rendered
  /\ searchTerm = <<"E", "L", "M">>
  /\ \E i, k \in InputPositions :
       /\ Shown(i)
       /\ Get(houses[i], "address") = Str(<<"E", "l", "m", "o">>)
       /\ ~Shown(k)

\* the value a listing is sorted by
SortKeyValue(h, key) ==
  CASE key = "score" -> h.calculated_score
    [] key = "price" -> Get(h, "price")
    [] key = "distance" -> Num(getDistance(h))
    [] OTHER -> Get(h, "sold")

\* C6: two listings that survive the filter with an identical sort key
\* value keep their relative order, for each of the four sort keys.
C6_EqualKeysKeepOrder ==
  Rendered =>
    \A i, k \in InputPositions :
      ( /\ i < k
        /\ Shown(i)
        /\ Shown(k)
        /\ SortKeyValue(scoredHouses[PositionOf(i)], sortBy)
             = SortKeyValue(scoredHouses[PositionOf(k)], sortBy) )
      => PositionOf(i) < PositionOf(k)

\* a listing is sold
IsSold(h) == Truthy(Get(h, "sold"))

\* C7: sorted by 'sold', every unsold listing precedes every sold one, and
\* two listings of equal sold status (false, null and absent all being
\* unsold) keep their relative order, the comparator returning 0 for them.
C7_SoldOrder ==
  (Rendered /\ sortBy = "sold") =>
    /\ \A i, k \in 1..Len(scoredHouses) :
         (~IsSold(scoredHouses[i]) /\ IsSold(scoredHouses[k])) => i < k
    /\ \A i, k \in InputPositions :
         ( /\ i < k
           /\ Shown(i)
           /\ Shown(k)
           /\ IsSold(houses[i]) = IsSold(houses[k]) )
         => /\ PositionOf(i) < PositionOf(k)
            /\ compare(scoredHouses[PositionOf(i)],
                       scoredHouses[PositionOf(k)], "sold") = 0

\* the distance text of a listing has no digit
NoDigit(h) ==
  LET str == TextOf(Get(h, "distance"))
  IN  \A i \in 1..Len(str) : ~IsDigit(str[i])

RECURSIVE ReadNumber(_, _, _)
\* the number written by the digits of str from position i on
ReadNumber(str, i, acc) ==
  IF i > Len(str) \/ ~IsDigit(str[i]) THEN acc
  ELSE ReadNumber(str, i + 1, 10 * acc + DigitVal(str[i]))

\* the first run of digits of the distance text of h, as a number
FirstNumber(h) ==
  LET str == TextOf(Get(h, "distance"))
      i == CHOOSE k \in 1..Len(str) :
             IsDigit(str[k]) /\ \A j \in 1..(k - 1) : ~IsDigit(str[j])
  IN  ReadNumber(str, i, 0)

\* what C8 says of scoring and of reading the minutes: a listing without a
\* digit sorts as one of 99 minutes and scores as one of 50 minutes; with a
\* digit, scorer and comparator read the first run of digits
C8_Defaults(h) ==
  IF NoDigit(h)
  THEN /\ \A o \in RankPool :
            /\ compare(h, o, "distance")
                 = compare(Patch(h, "distance", Str(Txt99min)), o, "distance")
            /\ compare(o, h, "distance")
                 = compare(o, Patch(h, "distance", Str(Txt99min)), "distance")
       /\ h.calculated_score
            = calculateScore(Patch(h, "distance",
                                   Str(<<"5", "0", " ", "m", "i", "n">>)),
                             weights)
       /\ distanceScore(h) = 0
  ELSE /\ scoreDistance(h) = FirstNumber(h)
       /\ getDistance(h) = FirstNumber(h)

\* C8 as stated: in addition, the listing without a digit is last in the
\* ascending distance order.
C8_Original ==
  Rendered =>
    \A j \in 1..Len(scoredHouses) :
      /\ C8_Defaults(scoredHouses[j])
      /\ (sortBy = "distance" /\ NoDigit(scoredHouses[j])) =>
           \A k \in (j + 1)..Len(scoredHouses) : NoDigit(scoredHouses[k])

\* C8 amended: the listing without a digit stands where 99 minutes stand:
\* behind every listing of fewer than 99 minutes and before every listing of
\* more than 99 minutes, so it is last only when no listing is farther away
\* than 99 minutes.
C8_SortsAs99ScoresAs50 ==
  Rendered =>
    \A j \in 1..Len(scoredHouses) :
      /\ C8_Defaults(scoredHouses[j])
      /\ (sortBy = "distance" /\ NoDigit(scoredHouses[j])) =>
           \A k \in 1..Len(scoredHouses) :
             ~NoDigit(scoredHouses[k]) =>
               /\ FirstNumber(scoredHouses[k]) < 99 => k < j
               /\ FirstNumber(scoredHouses[k]) > 99 => j < k

\* sorted by distance: a listing of 7 minutes, then one without a digit,
\* then one of 120 minutes
C8_Witness ==
  /\ Rendered
  /\ sortBy = "distance"
  /\ Len(scoredHouses) = 3
  /\ ~NoDigit(scoredHouses[1]) /\ FirstNumber(scoredHouses[1]) = 7
  /\ NoDigit(scoredHouses[2])
  /\ ~NoDigit(scoredHouses[3]) /\ FirstNumber(scoredHouses[3]) = 120

PriceOrZero(h) ==
  IF Get(h, "price").t = "number" THEN Get(h, "price").v ELSE 0

\* every displayed listing is annotated exactly when its price, 0 if missing,
\* exceeds the budget limit; never when the price is missing
AnnotatedByPrice ==
  \A j \in 1..Len(scoredHouses) :
    /\ overBudget(scoredHouses[j], budgetLimit)
         <=> PriceOrZero(scoredHouses[j]) > budgetLimit
    /\ (Get(scoredHouses[j], "price").t # "number" /\ budgetLimit >= 0)
         => ~overBudget(scoredHouses[j], budgetLimit)

\* C13: a listing is annotated 'Over Budget' exactly when its price, taken
\* as 0 when missing, exceeds budgetLimit, so never when the price is missing;
\* and a change of budgetLimit leaves the scores, the membership and the
\* order of the displayed sequence as they were.
C13_BudgetOnlyAnnotates ==
  [][ /\ AnnotatedByPrice'
      /\ budgetLimit' # budgetLimit => scoredHouses' = scoredHouses ]_vars

\* the budget limit lowered: a listing above it is annotated, a listing
\* without a price is not
C13_Witness ==
  /\ budgetLimit = 400000
  /\ \E j, k \in 1..Len(scoredHouses) :
       /\ Get(scoredHouses[j], "price") = Null
       /\ ~overBudget(scoredHouses[j], budgetLimit)
       /\ Get(scoredHouses[k], "price").t = "number"
       /\ overBudget(scoredHouses[k], budgetLimit)

\* the listing without its score
Unscored(h) == [f \in (DOMAIN h) \ {"calculated_score"} |-> h[f]]

\* C3: whatever was changed so far, the displayed sequence is a fresh
\* evaluation of the current collection, weights, search term and sort key:
\* every displayed score is calculateScore of that listing under the current
\* weights, and sorted by score the scores do not increase.
C3_DisplayIsFresh ==
  /\ scoredHouses \in Evaluate(houses, sortBy, weights, searchTerm)
  /\ \A j \in 1..Len(scoredHouses) :
       \E i \in 1..Len(houses) :
         /\ Unscored(houses[i]) = Unscored(scoredHouses[j])
         /\ scoredHouses[j].calculated_score
              = calculateScore(houses[i], weights)
  /\ sortBy = "score" =>
       \A j, k \in 1..Len(scoredHouses) :
         j < k => SignOfDifference(scoredHouses[j].calculated_score,
                                   scoredHouses[k].calculated_score) >= 0

\* after a weight change: two listings displayed by descending score, in
\* another order than the collection's, with scores that the weights before
\* the change did not give
C3_Witness ==
  /\ weights # DefaultWeights
  /\ sortBy = "score"
  /\ Len(scoredHouses) = 2
  /\ Len(houses) = 2
  /\ scoredHouses[1].id = houses[2].id
  /\ SignOfDifference(scoredHouses[1].calculated_score,
                      scoredHouses[2].calculated_score) > 0
  /\ \A j \in 1..2 :
       scoredHouses[j].calculated_score
         # calculateScore(Unscored(scoredHouses[j]), DefaultWeights)

\* a record is on its way to the store in a saveHouseToDB or updateHouseInDB
Saving == op.kind \in {"add", "edit", "upload"} /\ op.pc = "request"

\* C16: no record handed to the store by saveHouseToDB or updateHouseInDB
\* carries a calculated_score field.
C16_ScoreNeverSent == Saving => "calculated_score" \notin DOMAIN Sent

\* no persistence operation is in flight: the initial load is done and no
\* add, edit, delete or import is under way
Quiescent == load.pc = "done" /\ op = Idle

\* C17: whenever no persistence operation is in flight, houses holds exactly
\* the listings of the store: the same identifiers, each once.
C17_HousesMirrorStore ==
  Quiescent =>
    /\ Ids(houses) = Ids(db)
    /\ \A i, j \in 1..Len(houses) : houses[i].id = houses[j].id => i = j

====
